---- MODULE Spec2Model ----
(***************************************************************************)
(* ECVRF of vuvoth/orochimaru (ecvrf/src/lib.rs): hash_to_curve,           *)
(* hash_points, prove and verify over a short-Weierstrass curve            *)
(* y^2 = x^3 + 7 of prime order, with a Keccak sponge for the Fiat-Shamir  *)
(* challenge and for the output.                                           *)
(*                                                                         *)
(* The curve is secp256k1's equation over a field small enough to          *)
(* enumerate: p = 13, group order n = 7, generator (7, 5).  The group law, *)
(* the validity test and the protocol are those of the code; only the      *)
(* field size differs.  The sponge keeps Keccak's shape (absorb a byte     *)
(* string, squeeze a digest wider than the group order, reduce it to a     *)
(* scalar) and is injective on a single point, as Keccak-256 is on 64      *)
(* bytes for every practical purpose; on six points it collides, as any    *)
(* function into a field of 7 elements must.                               *)
(***************************************************************************)
EXTENDS Integers, Sequences, FiniteSets, TLC

\* ------------------------------------------------------------------ curve

\* field prime (libsecp256k1 curve::Field), scaled to 13
P == 13
\* group order (libsecp256k1 curve::Scalar), scaled to 7
N == 7
\* y^2 = x^3 + CURVE_B
CURVE_B == 7

FieldElems == 0 .. (P - 1)
Scalars == 0 .. (N - 1)
\* a secret key or a nonce: a scalar in [1, n-1]
NonZeroScalars == 1 .. (N - 1)

\* curve::Affine: coordinates and the infinity flag
Affine(px, py) == [x |-> px, y |-> py, infinity |-> FALSE]
\* Affine::default() with the flag set, as set_gej leaves it for z = 0
AFFINE_INFINITY == [x |-> 0, y |-> 0, infinity |-> TRUE]
AFFINE_G == Affine(7, 5)

\* every value an Affine can hold after normalisation
AffineValues == {Affine(px, py) : px \in FieldElems, py \in FieldElems} \cup {AFFINE_INFINITY}

\* Field::normalize: the canonical representative
normalize(v) == v % P

\* Affine::is_valid_var: not infinity and on the curve
is_valid_var(a) ==
    /\ ~a.infinity
    /\ normalize(a.y * a.y) = normalize(a.x * a.x * a.x + CURVE_B)

\* Field::inv (0 has no inverse; inv(0) = 0 as in the library)
inv(v) == IF normalize(v) = 0 THEN 0
          ELSE CHOOSE w \in 1 .. (P - 1) : normalize(v * w) = 1

\* Jacobian::add_ge / double, then Affine::set_gej: the group law on
\* normalised affine values.  The library's add_ge expects a finite second
\* operand; the law is completed here with a + infinity = a.
add_ge(a, b) ==
    IF a.infinity THEN b
    ELSE IF b.infinity THEN a
    ELSE IF a.x = b.x /\ normalize(a.y + b.y) = 0 THEN AFFINE_INFINITY
    ELSE LET lam == IF a.x = b.x
                    THEN normalize(3 * a.x * a.x * inv(2 * a.y))
                    ELSE normalize((b.y + P - a.y) * inv(b.x + P - a.x))
             rx  == normalize(lam * lam + 2 * P - a.x - b.x)
             ry  == normalize(lam * (a.x + P - rx) + P - a.y)
         IN Affine(rx, ry)

\* helper::jacobian_to_affine: Affine::from_gej and normalise both coordinates
jacobian_to_affine(j) ==
    IF j.infinity THEN AFFINE_INFINITY ELSE Affine(normalize(j.x), normalize(j.y))

\* na * a by double and add, for na in [0, n-1]
RECURSIVE double_and_add(_, _)
double_and_add(a, na) ==
    IF na = 0 THEN AFFINE_INFINITY
    ELSE LET half == double_and_add(a, na \div 2)
             dbl  == add_ge(half, half)
         IN IF na % 2 = 1 THEN add_ge(dbl, a) ELSE dbl

\* the points of the group: the valid points and the point at infinity
GroupPoints == {a \in AffineValues : a.infinity \/ is_valid_var(a)}

\* ECMULT_CONTEXT and ECMULT_GEN_CONTEXT: the multiplication tables, computed
\* once and only read afterwards
ECMULT_CONTEXT == [a \in GroupPoints |-> [na \in Scalars |-> double_and_add(a, na)]]
ECMULT_GEN_CONTEXT == [ng \in Scalars |-> double_and_add(AFFINE_G, ng)]

\* ECMultContext::ecmult(r, a, na, ng) with ng = 0: r = na * a
scalar_mul(a, na) ==
    IF a \in GroupPoints THEN ECMULT_CONTEXT[a][na] ELSE double_and_add(a, na)

\* helper::ecmult(ctx, a, na): na * a as a normalised affine point
ecmult(a, na) == jacobian_to_affine(scalar_mul(a, na))

\* helper::ecmult_gen(ctx, ng): ng * G as a normalised affine point
ecmult_gen(ng) == jacobian_to_affine(ECMULT_GEN_CONTEXT[ng])

\* ECMultContext::ecmult(r, a, na, ng): r = na * a + ng * G
ecmult2(a, na, ng) == add_ge(scalar_mul(a, na), ECMULT_GEN_CONTEXT[ng])

\* helper::normalize_scalar: the scalar reduced modulo the group order
normalize_scalar(v) == v % N

\* Scalar::cond_neg_assign(1): the additive inverse modulo the group order
cond_neg(v) == (N - (v % N)) % N

\* ------------------------------------------------------------------ hash

\* the sponge's multiplier and digest width (tiny_keccak::Keccak::v256)
KeccakRate == 17
DigestBits == 8
DigestSpace == 2 ^ DigestBits

\* Hasher::update over a byte string, then finalize
RECURSIVE absorb(_, _)
absorb(d, bytes) ==
    IF bytes = <<>> THEN d
    ELSE absorb((d * KeccakRate + Head(bytes) + 1) % DigestSpace, Tail(bytes))

keccak256(bytes) == absorb(0, bytes)

\* point.x.b32() followed by point.y.b32()
b32(point) == <<point.x, point.y>>

\* Scalar::set_b32: the digest reduced into the scalar field
set_b32(digest) == digest % N

\* helper::keccak256_affine: Keccak-256 of gamma.x || gamma.y
keccak256_affine(a) == keccak256(b32(a))


\* ------------------------------------------------------------------ ECVRF

\* Option<&Affine>
Some(v) == <<v>>
None == <<>>

\* ECVRF::new: the engine keeps the secret key and derives the public key
\* (PublicKey::from_secret_key)
new(sk) == [secret_key |-> sk, public_key |-> ecmult_gen(sk)]

\* ECVRF::hash_to_curve: alpha * G, offset by the binding point when given,
\* as a normalised affine point
hash_to_curve(alpha, y) ==
    LET r == ECMULT_GEN_CONTEXT[alpha]
        q == IF y = None THEN r ELSE add_ge(r, y[1])
    IN jacobian_to_affine(q)

\* ECVRF::hash_points: Keccak-256 over x || y of the six points in order,
\* the digest reduced to a scalar
hash_points(g, h, pk, gamma, kg, kh) ==
    set_b32(keccak256(b32(g) \o b32(h) \o b32(pk) \o b32(gamma) \o b32(kg) \o b32(kh)))

\* ecproof::ECVRFProof::new
ECVRFProof(gamma, c, s, y, public_key) ==
    [gamma |-> gamma, c |-> c, s |-> s, y |-> y, public_key |-> public_key]

\* the locals of a prove call before any of them is assigned
NoLocals ==
    [alpha |-> 0, pub_affine |-> AFFINE_INFINITY, secret_key |-> 0,
     h |-> AFFINE_INFINITY, gamma |-> AFFINE_INFINITY, k |-> 0,
     kg |-> AFFINE_INFINITY, kh |-> AFFINE_INFINITY, c |-> 0, s |-> 0]

\* prove, lines 82-91: the working copies, H and gamma = secret_key * H
prove_begin(self, alpha) ==
    LET pub_affine == jacobian_to_affine(self.public_key)
        secret_key == self.secret_key
        h          == hash_to_curve(alpha, Some(pub_affine))
    IN [NoLocals EXCEPT !.alpha = alpha, !.pub_affine = pub_affine,
                        !.secret_key = secret_key, !.h = h,
                        !.gamma = ecmult(h, secret_key)]

\* prove, lines 97-108: k*G, k*H, the challenge c and s = k - c * secret_key
prove_sign(l, k) ==
    LET kg    == ecmult_gen(k)
        kh    == ecmult(l.h, k)
        c     == hash_points(AFFINE_G, l.h, l.pub_affine, l.gamma, kg, kh)
        neg_c == cond_neg(c)
        s     == normalize_scalar(k + neg_c * l.secret_key)
    IN [l EXCEPT !.k = k, !.kg = kg, !.kh = kh, !.c = c, !.s = s]

\* line 109 as self.secret_key.clear(): the engine's key is zeroed, not the copy
prove_clear_engine(self, l) == [self |-> [self EXCEPT !.secret_key = 0], l |-> l]

\* prove, line 109: secret_key.clear() zeroes the working copy and leaves the
\* engine as it is; the value is what the statement leaves of both
prove_clear(self, l) == [self |-> self, l |-> [l EXCEPT !.secret_key = 0]]

\* line 112 as keccak256_affine(&kh): the output hashed from k * H
prove_return_kh(self, l) ==
    ECVRFProof(l.gamma, l.c, l.s, keccak256_affine(l.kh), self.public_key)

\* prove, lines 112-114: the output and the proof, with the engine's public key
prove_return(self, l) ==
    ECVRFProof(l.gamma, l.c, l.s, keccak256_affine(l.gamma), self.public_key)

\* ECVRF::prove with the nonce k that randomize() returned
prove(self, alpha, k) ==
    LET cleared == prove_clear(self, prove_sign(prove_begin(self, alpha), k))
    IN prove_return(cleared.self, cleared.l)

\* verify, lines 118-123: the two assertions; FALSE is the panic
verify_check(self, vrf_proof) ==
    /\ is_valid_var(jacobian_to_affine(self.public_key))
    /\ is_valid_var(vrf_proof.gamma)

\* lines 118 and 126-153 reading vrf_proof.public_key instead of self.public_key
verify_finish_embedded_key(self, alpha, vrf_proof) ==
    LET pub_affine == jacobian_to_affine(vrf_proof.public_key)
        h          == hash_to_curve(alpha, Some(pub_affine))
        u          == ecmult2(pub_affine, vrf_proof.c, vrf_proof.s)
        c_gamma    == ecmult(h, vrf_proof.s)
        s_h        == ecmult(vrf_proof.gamma, vrf_proof.c)
        v          == add_ge(c_gamma, s_h)
        computed_c == hash_points(AFFINE_G, h, pub_affine, vrf_proof.gamma,
                                  jacobian_to_affine(u), jacobian_to_affine(v))
        computed_y == keccak256_affine(vrf_proof.gamma)
    IN computed_c = vrf_proof.c /\ computed_y = vrf_proof.y

\* verify, lines 126-158
verify_finish(self, alpha, vrf_proof) ==
    LET pub_affine == jacobian_to_affine(self.public_key)
        h          == hash_to_curve(alpha, Some(pub_affine))
        u          == ecmult2(pub_affine, vrf_proof.c, vrf_proof.s)
        c_gamma    == ecmult(h, vrf_proof.s)
        s_h        == ecmult(vrf_proof.gamma, vrf_proof.c)
        v          == add_ge(c_gamma, s_h)
        computed_c == hash_points(AFFINE_G, h, pub_affine, vrf_proof.gamma,
                                  jacobian_to_affine(u), jacobian_to_affine(v))
        computed_y == keccak256_affine(vrf_proof.gamma)
    IN computed_c = vrf_proof.c /\ computed_y = vrf_proof.y

\* ECVRF::verify: "panic" when an assertion fails, else the boolean returned
verify(self, alpha, vrf_proof) ==
    IF ~verify_check(self, vrf_proof) THEN "panic"
    ELSE IF verify_finish(self, alpha, vrf_proof) THEN "true" ELSE "false"


\* ------------------------------------------------------------------ state

VARIABLES
    engine,     \* the prover's ECVRF: [secret_key, public_key]
    pc,         \* "new", "proved", "submitted", "verified"
    call,       \* the inputs of the prove call: [alpha, k]
    proof,      \* the ECVRFProof prove returned
    submitted,  \* the ECVRFProof handed to verify
    tampered,   \* the field of the proof that was changed on the way, or "none"
    verifier,   \* the secret key of the engine verify ran on
    result,     \* what verify did: "true", "false" or "panic"
    seed,       \* the alpha the concurrent calls are made with
    calls       \* the calls in progress, by thread: their position and locals

vars == <<engine, pc, call, proof, submitted, tampered, verifier, result, seed, calls>>

\* the number of threads calling into the engine
MaxCalls == 2
Threads == 1 .. MaxCalls

\* the nonces randomize() returns to the concurrent calls: 1 .. MaxNonce
MaxNonce == 2
Nonces == {k \in NonZeroScalars : k <= MaxNonce}

NoEngine == [secret_key |-> 0, public_key |-> AFFINE_INFINITY]

NoProof == ECVRFProof(AFFINE_INFINITY, 0, 0, 0, AFFINE_INFINITY)

\* a thread that has not called yet
IdleCall ==
    [op |-> "none", at |-> "idle", self |-> NoEngine, alpha |-> 0, l |-> NoLocals,
     vrf_proof |-> NoProof, ret |-> "none"]

\* the valid public keys: sk * G for sk in [1, n-1]
PublicKeys == {ecmult_gen(sk) : sk \in NonZeroScalars}

\* the digest with bit b flipped
flip(d, b) == IF (d \div (2 ^ b)) % 2 = 1 THEN d - 2 ^ b ELSE d + 2 ^ b

\* ECVRF::new(secret_key) for a secret key in [1, n-1]
Init ==
    /\ engine \in {new(sk) : sk \in NonZeroScalars}
    /\ pc = "new"
    /\ call = [alpha |-> 0, k |-> 0]
    /\ proof = NoProof
    /\ submitted = NoProof
    /\ tampered = "none"
    /\ verifier = 0
    /\ result = "none"
    /\ seed = 0
    /\ calls = [t \in Threads |-> IdleCall]

\* r1 = ecvrf.prove(&alpha), randomize() returning k
Prove(alpha, k) ==
    /\ pc = "new"
    /\ pc' = "proved"
    /\ call' = [alpha |-> alpha, k |-> k]
    /\ proof' = prove(engine, alpha, k)
    /\ UNCHANGED <<engine, submitted, tampered, verifier, result, seed, calls>>

\* the proof reaches the verifier as prove returned it
Submit ==
    /\ pc = "proved"
    /\ pc' = "submitted"
    /\ submitted' = proof
    /\ tampered' = "none"
    /\ UNCHANGED <<engine, call, proof, verifier, result, seed, calls>>

\* the proof reaches the verifier with one field changed
Tamper(field, p) ==
    /\ pc = "proved"
    /\ p # proof
    /\ pc' = "submitted"
    /\ submitted' = p
    /\ tampered' = field
    /\ UNCHANGED <<engine, call, proof, verifier, result, seed, calls>>

TamperGamma == \E g \in AffineValues : Tamper("gamma", [proof EXCEPT !.gamma = g])
TamperC == \E c \in Scalars : Tamper("c", [proof EXCEPT !.c = c])
TamperS == \E s \in Scalars : Tamper("s", [proof EXCEPT !.s = s])
TamperOutput ==
    \E b \in 0 .. (DigestBits - 1) : Tamper("y", [proof EXCEPT !.y = flip(proof.y, b)])
TamperPublicKey ==
    \E pk \in PublicKeys : Tamper("public_key", [proof EXCEPT !.public_key = pk])

\* ECVRF::new(vk).verify(&alpha, &submitted)
Verify(vk) ==
    /\ pc = "submitted"
    /\ pc' = "verified"
    /\ verifier' = vk
    /\ result' = verify(new(vk), call.alpha, submitted)
    /\ UNCHANGED <<engine, call, proof, submitted, tampered, seed, calls>>

Next ==
    \/ \E alpha \in Scalars, k \in NonZeroScalars : Prove(alpha, k)
    \/ Submit
    \/ TamperGamma
    \/ TamperC
    \/ TamperS
    \/ TamperOutput
    \/ TamperPublicKey
    \/ \E vk \in NonZeroScalars : Verify(vk)

Spec == Init /\ [][Next]_vars

\* ------------------------------------------------------------------ steps
\* The same calls statement by statement, made by several threads at once on
\* one engine.  prove borrows the engine; verify consumes an engine of its
\* own, built from the same secret key.

InitSteps ==
    /\ engine \in {new(sk) : sk \in NonZeroScalars}
    /\ seed \in Scalars
    /\ calls = [t \in Threads |-> IdleCall]
    /\ pc = "new"
    /\ call = [alpha |-> 0, k |-> 0]
    /\ proof = NoProof
    /\ submitted = NoProof
    /\ tampered = "none"
    /\ verifier = 0
    /\ result = "none"

api == <<pc, call, proof, submitted, tampered, verifier, result>>

\* prove, lines 82-91
StartProve(t) ==
    /\ calls[t].at = "idle"
    /\ calls' = [calls EXCEPT ![t] = [@ EXCEPT !.op = "prove", !.at = "begun",
                                               !.alpha = seed,
                                               !.l = prove_begin(engine, seed)]]
    /\ UNCHANGED <<engine, seed, api>>

\* prove, line 94: randomize() returns k in [1, n-1]
Randomize(t, k) ==
    /\ calls[t].op = "prove" /\ calls[t].at = "begun"
    /\ calls' = [calls EXCEPT ![t] = [@ EXCEPT !.at = "drawn", !.l = [@ EXCEPT !.k = k]]]
    /\ UNCHANGED <<engine, seed, api>>

\* prove, line 94: the random source is unavailable and the call ends there
RandomizeFails(t) ==
    /\ calls[t].op = "prove" /\ calls[t].at = "begun"
    /\ calls' = [calls EXCEPT ![t] = [@ EXCEPT !.at = "failed", !.ret = "failure"]]
    /\ UNCHANGED <<engine, seed, api>>

\* prove, lines 97-108
Sign(t) ==
    /\ calls[t].op = "prove" /\ calls[t].at = "drawn"
    /\ calls' = [calls EXCEPT ![t] = [@ EXCEPT !.at = "signed",
                                               !.l = prove_sign(@, @.k)]]
    /\ UNCHANGED <<engine, seed, api>>

\* prove, line 109
Clear(t) ==
    /\ calls[t].op = "prove" /\ calls[t].at = "signed"
    /\ LET after == prove_clear(engine, calls[t].l)
       IN /\ engine' = after.self
          /\ calls' = [calls EXCEPT ![t] = [@ EXCEPT !.at = "cleared", !.l = after.l]]
    /\ UNCHANGED <<seed, api>>

\* prove, lines 112-114
Return(t) ==
    /\ calls[t].op = "prove" /\ calls[t].at = "cleared"
    /\ calls' = [calls EXCEPT ![t] = [@ EXCEPT !.at = "returned", !.ret = "proof",
                                               !.vrf_proof = prove_return(engine, calls[t].l)]]
    /\ UNCHANGED <<engine, seed, api>>

\* ECVRF::new(secret_key).verify(&alpha, &proof) on the proof thread u's
\* prove returned; lines 118-123: a failed assertion panics
StartVerify(t, u) ==
    /\ calls[t].at = "idle"
    /\ calls[u].op = "prove" /\ calls[u].at = "returned"
    /\ LET self == new(engine.secret_key)
           ok   == verify_check(self, calls[u].vrf_proof)
       IN calls' = [calls EXCEPT ![t] =
                       [@ EXCEPT !.op = "verify", !.self = self, !.alpha = seed,
                                 !.vrf_proof = calls[u].vrf_proof,
                                 !.at = IF ok THEN "checked" ELSE "panicked",
                                 !.ret = IF ok THEN "none" ELSE "panic"]]
    /\ UNCHANGED <<engine, seed, api>>

\* verify, lines 126-158
Finish(t) ==
    /\ calls[t].op = "verify" /\ calls[t].at = "checked"
    /\ calls' = [calls EXCEPT ![t] =
                    [@ EXCEPT !.at = "returned",
                              !.ret = IF verify_finish(calls[t].self, calls[t].alpha,
                                                       calls[t].vrf_proof)
                                      THEN "true" ELSE "false"]]
    /\ UNCHANGED <<engine, seed, api>>

\* the call is over and the thread is free for its next call
Drop(t) ==
    /\ calls[t].at \in {"returned", "failed", "panicked"}
    /\ calls' = [calls EXCEPT ![t] = IdleCall]
    /\ UNCHANGED <<engine, seed, api>>

NextSteps ==
    \E t \in Threads :
        \/ StartProve(t)
        \/ \E k \in Nonces : Randomize(t, k)
        \/ RandomizeFails(t)
        \/ Sign(t)
        \/ Clear(t)
        \/ Return(t)
        \/ \E u \in Threads : StartVerify(t, u)
        \/ Finish(t)
        \/ Drop(t)

SpecSteps == InitSteps /\ [][NextSteps]_vars

\* ------------------------------------------------------------------ claims

SameEngine == verifier = engine.secret_key

\* C1: verify(alpha, prove(alpha)) on the proving engine returns true, for
\* every secret key, alpha and nonce
C1_RoundTrip ==
    (pc = "verified" /\ tampered = "none" /\ SameEngine) => result = "true"

\* C2: a proof whose gamma is not a valid curve point makes verify return
\* false; it never panics
C2_InvalidPointRejected ==
    (pc = "verified" /\ ~is_valid_var(submitted.gamma)) => result = "false"

\* C4: an otherwise valid proof whose gamma was replaced by any other value
\* makes verify return false
C4_ForgedGammaRejected ==
    (pc = "verified" /\ tampered = "gamma" /\ SameEngine) => result = "false"

\* C6: a proof of the engine of sk1 makes verify return false on the engine
\* of any other key sk2, for every alpha.  Stated at the alphas with
\* alpha + sk1 = 0 mod n, which the claim covers and where the outcome does
\* not rest on the challenge hash (elsewhere a scalar field of 7 elements
\* lets the recomputed challenge collide).
C6_CrossKeyRejected ==
    (/\ pc = "verified"
     /\ tampered = "none"
     /\ ~SameEngine
     /\ (call.alpha + engine.secret_key) % N = 0)
    => result = "false"

\* C8: every proof prove returns has a valid gamma, c and s in [0, n-1] and
\* s = (k - c * sk) mod n
C8_ProofWellFormed ==
    pc # "new" =>
        /\ is_valid_var(proof.gamma)
        /\ proof.c \in Scalars
        /\ proof.s \in Scalars
        /\ proof.s = (call.k + N * N - proof.c * engine.secret_key) % N

\* one coordinate of the encoding differs, the other is as it was
OneCoordinateChanged(a, b) ==
    /\ ~b.infinity
    /\ \/ a.x # b.x /\ a.y = b.y
       \/ a.x = b.x /\ a.y # b.y

\* C5: a valid proof with one of its fields changed makes verify return
\* false.  Stated for gamma (one coordinate changed) and for the output (one
\* bit flipped); for c and s the rejection rests on the challenge hash not
\* colliding, which no function into a scalar field of 7 elements provides.
C5_TamperRejected ==
    (/\ pc = "verified"
     /\ SameEngine
     /\ \/ tampered = "y"
        \/ tampered = "gamma" /\ OneCoordinateChanged(proof.gamma, submitted.gamma))
    => result = "false"

\* C10: verify does not read the public key embedded in the proof: a proof
\* that differs from the one prove returned only in its public_key field gets
\* the result the original gets, on every engine
C10_EmbeddedKeyIgnored ==
    (pc = "verified" /\ tampered = "public_key")
    => result = verify(new(verifier), call.alpha, proof)

C10_Witness ==
    /\ pc = "verified"
    /\ tampered = "public_key"
    /\ submitted.public_key # new(verifier).public_key
    /\ submitted.public_key # proof.public_key
    /\ result = "true"

ProveReturned(t) == calls[t].op = "prove" /\ calls[t].at = "returned"

\* C3: two prove calls with the same secret key and alpha return the same
\* gamma and the same output whatever their nonces; gamma is
\* sk * (alpha * G + publicKey) and the output is the hash of gamma
C3_OutputDeterministic ==
    \A t \in Threads : ProveReturned(t) =>
        /\ calls[t].vrf_proof.gamma =
               ecmult(add_ge(ecmult_gen(calls[t].alpha), engine.public_key),
                      engine.secret_key)
        /\ calls[t].vrf_proof.y = keccak256_affine(calls[t].vrf_proof.gamma)
        /\ \A u \in Threads : (ProveReturned(u) /\ calls[u].alpha = calls[t].alpha) =>
               /\ calls[u].vrf_proof.gamma = calls[t].vrf_proof.gamma
               /\ calls[u].vrf_proof.y = calls[t].vrf_proof.y

C3_Witness ==
    \E t, u \in Threads :
        /\ ProveReturned(t) /\ ProveReturned(u)
        /\ calls[t].l.k # calls[u].l.k
        /\ calls[t].vrf_proof.s # calls[u].vrf_proof.s
        /\ ~calls[t].vrf_proof.gamma.infinity

\* C7: when a prove call has ended, by returning a proof or by failing, its
\* working copy of the secret scalar is zero
C7_SecretZeroedOnExit ==
    \A t \in Threads :
        (calls[t].op = "prove" /\ calls[t].at \in {"returned", "failed"})
        => calls[t].l.secret_key = 0

\* what each call returns when it runs alone with the same inputs and nonce
ReturnsAsAlone(t) ==
    /\ ProveReturned(t) =>
           calls[t].vrf_proof = prove(new(engine.secret_key), calls[t].alpha, calls[t].l.k)
    /\ (calls[t].op = "verify" /\ calls[t].at \in {"returned", "panicked"}) =>
           calls[t].ret = verify(new(engine.secret_key), calls[t].alpha, calls[t].vrf_proof)

\* C9: under every interleaving of the steps of concurrent calls the engine
\* stays as ECVRF::new left it and each call returns what it returns alone
C9_ConcurrentIndependence ==
    /\ [][engine' = engine]_vars
    /\ [](\A t \in Threads : ReturnsAsAlone(t))

C9_Witness ==
    \E t, u \in Threads :
        /\ calls[t].op = "prove" /\ calls[t].at = "cleared"
        /\ calls[u].op = "verify" /\ calls[u].ret = "true"
        /\ calls[u].vrf_proof.s # calls[t].l.s

====
